---------------------------- MODULE Spec2Model ----------------------------
(***************************************************************************)
(* Model of src/src/main.rs: a winit/softbuffer window that draws a square *)
(* whose side is a tenth of the window, moves it with W/A/S/D and with a   *)
(* left click, and animates it with a bouncing velocity on every redraw.   *)
(*                                                                         *)
(* Numbers.  The f64 fields (square position, cursor) are held as integers *)
(* counting TENTHS OF A PIXEL, so that width * 0.1, mw / 2.0 and the       *)
(* sub-pixel positions the program produces are exact.  usize values       *)
(* (pixel columns, sizes) are held in whole pixels.  Frame times are held  *)
(* in milliseconds; the velocity is in pixels per second, so one frame     *)
(* moves the square by velocity * dt / 100 tenths of a pixel.  The         *)
(* rounding of IEEE doubles is not modelled.                               *)
(***************************************************************************)
EXTENDS Integers, FiniteSets, Sequences, TLC

VARIABLES
    gfx_state,          \* "None" | "Some"            (App.gfx_state)
    width, height,      \* window.inner_size(), physical pixels, may be 0
    square_pos_x, square_pos_y,   \* tenths of a pixel
    velocity_x, velocity_y,       \* pixels per second
    cursor_x, cursor_y,           \* tenths of a pixel
    redraw_requested,   \* the window has a redraw request pending
    exiting,            \* event_loop.exit() was called
    drawn,              \* observation: what the render just handled wrote and presented
    asked_redraw,       \* observation: the handler just run called window.request_redraw()
    last,               \* history: the event handled last
    presses             \* history: KeyA presses made in a row right after resumed

vars == << gfx_state, width, height, square_pos_x, square_pos_y, velocity_x,
           velocity_y, cursor_x, cursor_y, redraw_requested, exiting, drawn,
           asked_redraw, last, presses >>

---------------------------------------------------------------------------
(* Units and arithmetic helpers *)

Px(n) == 10 * n                      \* whole pixels -> tenths of a pixel

Min(a, b) == IF a <= b THEN a ELSE b
Max(a, b) == IF a >= b THEN a ELSE b

\* f64 `as usize`: truncates toward zero, negative values saturate to 0.
AsUsize(t) == IF t <= 0 THEN 0 ELSE t \div 10

\* f64::clamp(lo, hi)
Clamp(t, lo, hi) == IF t < lo THEN lo ELSE IF t > hi THEN hi ELSE t

\* size.width.max(1)
NonZero(d) == IF d < 1 THEN 1 ELSE d

---------------------------------------------------------------------------
(* Program constants *)

KeyStep == 20                        \* pixels moved by one key press
InitialVelocity == 100               \* pixels per second, both axes

MaxPresses == 19                     \* cap of the history counter `presses`

Keys == {"KeyW", "KeyA", "KeyS", "KeyD", "KeyQ"}
Buttons == {"Left", "Right"}

---------------------------------------------------------------------------
(* Pure functions of the program, one axis at a time *)

\* (mutation of SquareSizePx: the size of the initial 800x600 window is kept)
SquareSizePxOfFirstWindow(dim) == (800 * 10) \div 100

\* let mw = width * 10 / 100;  (usize arithmetic, whole pixels)
SquareSizePx(dim) == (NonZero(dim) * 10) \div 100

\* max_square_pos: width - width * 0.1  (f64), in tenths of a pixel
MaxSquarePos(dim) == Px(NonZero(dim)) - NonZero(dim)

\* (mutation of CenterPos: half the square's size is not subtracted)
CenterPosOfCanvas(dim) == Px(NonZero(dim) \div 2)

\* GraphicsState::new: (width / 2 - mw / 2) as f64  (usize divisions)
CenterPos(dim) == Px((NonZero(dim) \div 2) - (SquareSizePx(dim) \div 2))

\* (mutation of MoveTowardNear: the .max(0.0) is left out)
MoveTowardNearUnclamped(pos) == pos - Px(KeyStep)

\* KeyW / KeyA: pos -= 20.0; pos = pos.max(0.0)
MoveTowardNear(pos) == Max(pos - Px(KeyStep), 0)

\* (mutation of MoveTowardFar: clamps to the canvas edge, not to max_pos)
MoveTowardFarToEdge(pos, dim) == Min(pos + Px(KeyStep), Px(NonZero(dim)))

\* KeyS / KeyD: pos += 20.0; pos = pos.min(max_pos)
MoveTowardFar(pos, dim) == Min(pos + Px(KeyStep), MaxSquarePos(dim))

\* (mutation of ClickPos: the result is clamped into the canvas, as the keys do)
ClickPosClamped(cursor, dim) ==
    Clamp(Px(AsUsize(cursor)) - 5 * ((NonZero(dim) * 10) \div 100), 0,
          Px(NonZero(dim)) - NonZero(dim))

\* MouseInput Left: (cursor as usize) as f64 - (mw as f64 / 2.0)
ClickPos(cursor, dim) == Px(AsUsize(cursor)) - 5 * SquareSizePx(dim)

\* render: pos + velocity * dt
Integrate(pos, vel, dt) == pos + ((vel * dt) \div 100)

\* render: (pos as usize).min(width), on the integrated position
SquareStart(pos1, dim) == Min(AsUsize(pos1), NonZero(dim))

\* (mutation of SquareEnd: the .min(width) is left out)
SquareEndUncut(pos1, dim) == SquareStart(pos1, dim) + SquareSizePx(dim)

\* render: (square_start + mw).min(width)
SquareEnd(pos1, dim) == Min(SquareStart(pos1, dim) + SquareSizePx(dim), NonZero(dim))

\* render: square_end >= width || square_start <= 0
Contact(pos1, dim) ==
    \/ SquareEnd(pos1, dim) >= NonZero(dim)
    \/ SquareStart(pos1, dim) <= 0

\* render: the velocity after the contact test
BounceVelocity(pos1, vel, dim) == IF Contact(pos1, dim) THEN -vel ELSE vel

\* render: the position after the contact test
BouncePos(pos1, dim) ==
    IF Contact(pos1, dim) THEN Clamp(pos1, 0, MaxSquarePos(dim)) ELSE pos1

\* (mutation of RenderRequestsRedraw: render ends without the request)
RenderForgetsRedraw == FALSE

\* render: self.window.request_redraw() as its last statement
RenderRequestsRedraw == TRUE

---------------------------------------------------------------------------
(* Inputs the host can deliver.  FrameTimes are the elapsed times, in      *)
(* milliseconds, that render can measure between two frames.               *)

Canvases == { <<800, 600>>, <<400, 200>> }
FrameTimes == { 0, 200, 10000 }
CursorPoints == { <<1000, 500>>, <<-25, 6507>> }

\* A second set: canvases that are no multiple of ten pixels, with frame
\* times that move the square by half a pixel.
SmallCanvases == { <<25, 7>>, <<19, 7>> }
FineFrameTimes == { 0, 5, 200 }
FineCursorPoints == { <<185, 65>> }

NotDrawn == [w |-> 0, h |-> 0, sx |-> 0, ex |-> 0, sy |-> 0, ey |-> 0]

---------------------------------------------------------------------------
(* State after `App { gfx_state: None }`; the host has not created the     *)
(* window yet, `c` is the physical size it will have.                      *)

InitOver(canvases) ==
    /\ gfx_state = "None"
    /\ \E c \in canvases : width = c[1] /\ height = c[2]
    /\ square_pos_x = 0 /\ square_pos_y = 0
    /\ velocity_x = 0 /\ velocity_y = 0
    /\ cursor_x = 0 /\ cursor_y = 0
    /\ redraw_requested = FALSE
    /\ exiting = FALSE
    /\ drawn = NotDrawn
    /\ asked_redraw = FALSE
    /\ last = "None"
    /\ presses = -1

\* The pixel buffer is written and presented by render alone and read by
\* nothing; `drawn` shows it in the state that follows a render and is
\* NotDrawn after any other event.
\* Every window_event returns early while gfx_state is None; no event is
\* delivered after event_loop.exit().
Running == gfx_state = "Some" /\ ~exiting

---------------------------------------------------------------------------
(* Handlers *)

\* ApplicationHandler::resumed, with GraphicsState::new
Resumed ==
    /\ gfx_state = "None" /\ ~exiting
    /\ gfx_state' = "Some"
    /\ square_pos_x' = CenterPos(width)
    /\ square_pos_y' = CenterPos(height)
    /\ velocity_x' = InitialVelocity
    /\ velocity_y' = InitialVelocity
    /\ cursor_x' = 0 /\ cursor_y' = 0
    /\ redraw_requested' = TRUE
    /\ asked_redraw' = TRUE
    /\ last' = "Resumed"
    /\ presses' = 0
    /\ drawn' = NotDrawn
    /\ UNCHANGED << width, height, exiting >>

\* WindowEvent::CloseRequested
CloseRequested ==
    /\ Running
    /\ exiting' = TRUE
    /\ asked_redraw' = FALSE
    /\ last' = "Close"
    /\ presses' = -1
    /\ drawn' = NotDrawn
    /\ UNCHANGED << gfx_state, width, height, square_pos_x, square_pos_y,
                    velocity_x, velocity_y, cursor_x, cursor_y,
                    redraw_requested >>

\* WindowEvent::RedrawRequested -> GraphicsState::render, dt milliseconds
\* after the previous frame
RedrawRequested(dt) ==
    /\ Running
    /\ redraw_requested
    /\ LET x1 == Integrate(square_pos_x, velocity_x, dt)
           y1 == Integrate(square_pos_y, velocity_y, dt)
       IN  /\ square_pos_x' = BouncePos(x1, width)
           /\ square_pos_y' = BouncePos(y1, height)
           /\ velocity_x' = BounceVelocity(x1, velocity_x, width)
           /\ velocity_y' = BounceVelocity(y1, velocity_y, height)
           /\ drawn' = [w |-> NonZero(width), h |-> NonZero(height),
                         sx |-> SquareStart(x1, width), ex |-> SquareEnd(x1, width),
                         sy |-> SquareStart(y1, height), ey |-> SquareEnd(y1, height)]
    /\ redraw_requested' = RenderRequestsRedraw
    /\ asked_redraw' = RenderRequestsRedraw
    /\ last' = IF dt = 0 THEN "Frame0" ELSE "Frame"
    /\ presses' = -1
    /\ UNCHANGED << gfx_state, width, height, cursor_x, cursor_y, exiting >>

\* WindowEvent::Resized: the window now has the inner size c
Resized(c) ==
    /\ Running
    /\ width' = c[1] /\ height' = c[2]
    /\ redraw_requested' = TRUE
    /\ asked_redraw' = TRUE
    /\ last' = "Resized"
    /\ presses' = -1
    /\ drawn' = NotDrawn
    /\ UNCHANGED << gfx_state, square_pos_x, square_pos_y, velocity_x,
                    velocity_y, cursor_x, cursor_y, exiting >>

\* WindowEvent::KeyboardInput
KeyboardInput(key, pressed) ==
    /\ Running
    /\ square_pos_x' = IF ~pressed THEN square_pos_x
                       ELSE IF key = "KeyA" THEN MoveTowardNear(square_pos_x)
                       ELSE IF key = "KeyD" THEN MoveTowardFar(square_pos_x, width)
                       ELSE square_pos_x
    /\ square_pos_y' = IF ~pressed THEN square_pos_y
                       ELSE IF key = "KeyW" THEN MoveTowardNear(square_pos_y)
                       ELSE IF key = "KeyS" THEN MoveTowardFar(square_pos_y, height)
                       ELSE square_pos_y
    /\ redraw_requested' =
           (redraw_requested \/ (pressed /\ key \in {"KeyW", "KeyA", "KeyS", "KeyD"}))
    /\ asked_redraw' = (pressed /\ key \in {"KeyW", "KeyA", "KeyS", "KeyD"})
    /\ last' = IF pressed /\ key \in {"KeyW", "KeyA", "KeyS", "KeyD"}
               THEN key ELSE "Ignored"
    /\ presses' = IF pressed /\ key = "KeyA" /\ presses >= 0 /\ presses < MaxPresses
                  THEN presses + 1 ELSE -1
    /\ drawn' = NotDrawn
    /\ UNCHANGED << gfx_state, width, height, velocity_x, velocity_y,
                    cursor_x, cursor_y, exiting >>

\* WindowEvent::MouseInput
MouseInput(button, pressed) ==
    /\ Running
    /\ IF pressed /\ button = "Left"
       THEN /\ square_pos_x' = ClickPos(cursor_x, width)
            /\ square_pos_y' = ClickPos(cursor_y, height)
            /\ redraw_requested' = TRUE
            /\ last' = "Click"
       ELSE /\ UNCHANGED << square_pos_x, square_pos_y, redraw_requested >>
            /\ last' = "Ignored"
    /\ asked_redraw' = (pressed /\ button = "Left")
    /\ presses' = -1
    /\ drawn' = NotDrawn
    /\ UNCHANGED << gfx_state, width, height, velocity_x, velocity_y,
                    cursor_x, cursor_y, exiting >>

\* (mutation of CursorMoved: the handler also requests a redraw)
CursorMovedAndRedraw(p) ==
    /\ Running
    /\ cursor_x' = p[1] /\ cursor_y' = p[2]
    /\ redraw_requested' = TRUE
    /\ asked_redraw' = TRUE
    /\ last' = "CursorMoved"
    /\ presses' = -1
    /\ drawn' = NotDrawn
    /\ UNCHANGED << gfx_state, width, height, square_pos_x, square_pos_y,
                    velocity_x, velocity_y, exiting >>

\* WindowEvent::CursorMoved
CursorMoved(p) ==
    /\ Running
    /\ cursor_x' = p[1] /\ cursor_y' = p[2]
    /\ asked_redraw' = FALSE
    /\ last' = "CursorMoved"
    /\ presses' = -1
    /\ drawn' = NotDrawn
    /\ UNCHANGED << gfx_state, width, height, square_pos_x, square_pos_y,
                    velocity_x, velocity_y, redraw_requested, exiting >>

\* any other WindowEvent: printed and ignored
OtherEvent ==
    /\ Running
    /\ asked_redraw' = FALSE
    /\ last' = "Ignored"
    /\ presses' = -1
    /\ drawn' = NotDrawn
    /\ UNCHANGED << gfx_state, width, height, square_pos_x, square_pos_y,
                    velocity_x, velocity_y, cursor_x, cursor_y,
                    redraw_requested, exiting >>

---------------------------------------------------------------------------
(* Specifications *)

NextOver(canvases, times, points) ==
    \/ Resumed
    \/ CloseRequested
    \/ \E dt \in times : RedrawRequested(dt)
    \/ \E c \in canvases : Resized(c)
    \/ \E k \in Keys, p \in BOOLEAN : KeyboardInput(k, p)
    \/ \E b \in Buttons, p \in BOOLEAN : MouseInput(b, p)
    \/ \E p \in points : CursorMoved(p)
    \/ OtherEvent

Init == InitOver(Canvases)
Next == NextOver(Canvases, FrameTimes, CursorPoints)
Spec == Init /\ [][Next]_vars

\* Sub-pixel frame times on small canvases.
InitFine == InitOver(SmallCanvases)
NextFine == NextOver(SmallCanvases, FineFrameTimes, FineCursorPoints)
SpecFine == InitFine /\ [][NextFine]_vars

\* GraphicsState::new alone, over every canvas up to MaxDim pixels a side
\* and the sizes around 800x600.
MaxDim == 24
InitDims == (0 .. MaxDim) \cup { 599, 600, 601, 799, 800, 801, 805 }
InitCanvases == InitDims \X InitDims
InitNew == InitOver(InitCanvases)
NextNew == Resumed
SpecNew == InitNew /\ [][NextNew]_vars

\* Rasterization: the 0x0 of a minimized window, and canvases the square
\* leaves by a click, a shrink or a long frame.
RasterCanvases == { <<0, 0>>, <<12, 10>>, <<25, 20>> }
RasterFrameTimes == { 0, 1000 }
RasterCursorPoints == { <<255, 205>> }
InitRaster == InitOver(RasterCanvases)
NextRaster == NextOver(RasterCanvases, RasterFrameTimes, RasterCursorPoints)
SpecRaster == InitRaster /\ [][NextRaster]_vars

\* The animation left alone: A may be pressed before the first frame, then
\* only frames follow, 5 ms apart, and the host keeps delivering them.
BounceCanvases == { <<0, 0>>, <<19, 7>>, <<25, 20>> }
InitBounce == InitOver(BounceCanvases)
NextBounce ==
    \/ Resumed
    \/ (last \in {"Resumed", "KeyA"} /\ KeyboardInput("KeyA", TRUE))
    \/ RedrawRequested(5)
SpecBounce == InitBounce /\ [][NextBounce]_vars /\ WF_vars(RedrawRequested(5))

\* The host delivers a redraw that stays requested.
NextLive == NextOver({ <<19, 7>>, <<20, 10>> }, { 0, 200 }, FineCursorPoints)
SpecLive == InitOver({ <<19, 7>> }) /\ [][NextLive]_vars
                /\ WF_vars(\E dt \in { 0, 200 } : RedrawRequested(dt))

---------------------------------------------------------------------------
(* Vocabulary of the properties *)

Canvas(dim) == NonZero(dim)          \* canvas dimension in pixels (minimum 1)
TenPercent(dim) == Canvas(dim)       \* 10% of the canvas, in tenths of a pixel
DirectionalKeys == {"KeyW", "KeyA", "KeyS", "KeyD"}
FrameTags == {"Frame0", "Frame"}

\* 0 <= position and position + size <= canvas, size being 10% of the canvas
InBounds(pos, dim) == 0 <= pos /\ pos + TenPercent(dim) <= Px(Canvas(dim))

---------------------------------------------------------------------------
(* C1 *)

\* C1: after every position update (directional key press, primary click,
\* frame) the square lies inside the canvas on both axes:
\* 0 <= position and position + 10% of the canvas <= canvas.
BoundsInvariant ==
    (gfx_state = "Some" /\ last \in DirectionalKeys \cup {"Click"} \cup FrameTags)
        => InBounds(square_pos_x, width) /\ InBounds(square_pos_y, height)

---------------------------------------------------------------------------
(* C2 *)

\* C2: a press of W or A never leaves the near edge below 0, a press of S
\* or D never leaves the far edge past the canvas edge, whatever the
\* position before; on an 800 wide canvas k presses of A right after start
\* give x = max(360 - 20k, 0), which is 0 from the 18th press on.
DirectionalKeyClamp ==
    /\ last = "KeyA" => square_pos_x >= 0
    /\ last = "KeyW" => square_pos_y >= 0
    /\ last = "KeyD" => square_pos_x + TenPercent(width) <= Px(Canvas(width))
    /\ last = "KeyS" => square_pos_y + TenPercent(height) <= Px(Canvas(height))
    /\ (presses >= 0 /\ width = 800) =>
           /\ presses <= 18 => square_pos_x = Px(360 - 20 * presses)
           /\ presses >= 18 => square_pos_x = 0

\* 18 presses of A from the centre of an 800 wide canvas
AfterEighteenLeft ==
    presses = 18 /\ width = 800 /\ last = "KeyA" /\ square_pos_x = 0

---------------------------------------------------------------------------
(* C3 *)

\* C3: a frame with elapsed time > 0 that starts with the far edge exactly
\* on the canvas boundary (position = maxPosition) and a positive velocity
\* component ends with that component negated and the position <= maxPosition.
BounceReflection ==
    [][ (gfx_state = "Some" /\ last' = "Frame") =>
            /\ (square_pos_x = MaxSquarePos(width) /\ velocity_x > 0) =>
                   (velocity_x' = -velocity_x /\ square_pos_x' <= MaxSquarePos(width))
            /\ (square_pos_y = MaxSquarePos(height) /\ velocity_y > 0) =>
                   (velocity_y' = -velocity_y /\ square_pos_y' <= MaxSquarePos(height))
      ]_vars

---------------------------------------------------------------------------
(* C4 *)

\* C4: a frame with zero elapsed time leaves the position and the velocity
\* unchanged on both axes, in every reachable state.
ZeroElapsedFrameIsIdentity ==
    [][ (gfx_state = "Some" /\ last' = "Frame0") =>
            UNCHANGED << square_pos_x, square_pos_y, velocity_x, velocity_y >>
      ]_vars

---------------------------------------------------------------------------
(* C5 *)

\* The contact rule as the claim words it, on the real-valued edges after
\* integration: far edge at or past the canvas edge, or near edge at or below 0.
EdgeContact(pos1, dim) == pos1 + TenPercent(dim) >= Px(Canvas(dim)) \/ pos1 <= 0

\* C5: keys, clicks, cursor moves and resizes leave the velocity unchanged;
\* a frame negates a component exactly when, after integration, that axis's
\* far edge reaches or exceeds the canvas edge or its near edge reaches or
\* goes below 0; each component keeps the magnitude 100.
VelocityOnlyByBounce ==
    [][ gfx_state = "Some" =>
            /\ last' \notin FrameTags => UNCHANGED << velocity_x, velocity_y >>
            /\ \A dt \in FrameTimes \cup FineFrameTimes :
                   RedrawRequested(dt) =>
                       /\ velocity_x' =
                              IF EdgeContact(Integrate(square_pos_x, velocity_x, dt), width)
                              THEN -velocity_x ELSE velocity_x
                       /\ velocity_y' =
                              IF EdgeContact(Integrate(square_pos_y, velocity_y, dt), height)
                              THEN -velocity_y ELSE velocity_y
            /\ velocity_x' \in {-100, 100} /\ velocity_y' \in {-100, 100}
      ]_vars

---------------------------------------------------------------------------
(* C6 *)

\* |pos + size/2 - canvas/2| <= 1 pixel, size being 10% of the canvas
\* (doubled, in tenths of a pixel, to stay in the integers)
CenteredExact(pos, dim) ==
    LET d == 2 * pos + TenPercent(dim) - Px(Canvas(dim))
    IN  -20 <= d /\ d <= 20

\* the same with the size in whole pixels that the program draws
CenteredDrawn(pos, dim) ==
    LET d == 2 * pos + Px((Canvas(dim) * 10) \div 100) - Px(Canvas(dim))
    IN  -20 <= d /\ d <= 20

\* C6: for every window size, GraphicsState::new puts the square fully inside
\* the canvas and centres it within one pixel on both axes; an 800x600 window
\* gives the size (80,60) and the position (360,270).
InitializeCentered ==
    last = "Resumed" =>
        /\ InBounds(square_pos_x, width) /\ InBounds(square_pos_y, height)
        /\ CenteredExact(square_pos_x, width) /\ CenteredExact(square_pos_y, height)
        /\ CenteredDrawn(square_pos_x, width) /\ CenteredDrawn(square_pos_y, height)
        /\ (width = 800 /\ height = 600) =>
               /\ (Canvas(width) * 10) \div 100 = 80
               /\ (Canvas(height) * 10) \div 100 = 60
               /\ square_pos_x = Px(360) /\ square_pos_y = Px(270)

\* the state right after the 800x600 window was realized
Initialized800x600 ==
    /\ last = "Resumed" /\ width = 800 /\ height = 600
    /\ square_pos_x = Px(360) /\ square_pos_y = Px(270)

---------------------------------------------------------------------------
(* C7 *)

\* a step that handles a press of the primary button
IsClick == gfx_state = "Some" /\ last' = "Click"
\* a step that handles a release, or a press of another button
IsOtherMouse ==
    /\ gfx_state = "Some" /\ last' = "Ignored"
    /\ \E b \in Buttons, p \in BOOLEAN : ~(b = "Left" /\ p) /\ MouseInput(b, p)

\* what a click leaves alone in either reading
ClickFrame ==
    /\ IsClick => UNCHANGED << velocity_x, velocity_y, cursor_x, cursor_y >>
    /\ IsOtherMouse => UNCHANGED << square_pos_x, square_pos_y, velocity_x,
                                    velocity_y, cursor_x, cursor_y >>
    /\ (IsClick /\ cursor_x = Px(100) /\ cursor_y = Px(50)
           /\ width = 800 /\ height = 600) =>
           (square_pos_x' = Px(60) /\ square_pos_y' = Px(20))

\* C7 as claimed: a primary press sets position = cursor - size/2 on both
\* axes (size = 10% of the current canvas), unclamped; velocity and cursor
\* stay; other buttons and releases change nothing.
ClickRecentersOnCursor ==
    [][ /\ IsClick =>
               /\ 2 * square_pos_x' = 2 * cursor_x - TenPercent(width)
               /\ 2 * square_pos_y' = 2 * cursor_y - TenPercent(height)
        /\ ClickFrame
      ]_vars

\* the cursor as the click reads it: whole pixels, rounded toward zero, and
\* 0 when it is negative
WholePixel(c) == IF c <= 0 THEN 0 ELSE c - (c % 10)

\* C7 amended: the cursor is first truncated to whole pixels (0 when
\* negative) and the size is 10% of the canvas rounded down to whole pixels;
\* position = that cursor - that size / 2, unclamped.
ClickRecentersOnCursorPixel ==
    [][ /\ IsClick =>
               /\ 2 * square_pos_x' =
                      2 * WholePixel(cursor_x) - Px((Canvas(width) * 10) \div 100)
               /\ 2 * square_pos_y' =
                      2 * WholePixel(cursor_y) - Px((Canvas(height) * 10) \div 100)
        /\ ClickFrame
      ]_vars

\* the click of the example: cursor (100,50) on 800x600
ClickedAt100x50 ==
    /\ last = "Click" /\ width = 800 /\ height = 600
    /\ cursor_x = Px(100) /\ cursor_y = Px(50)
    /\ square_pos_x = Px(60) /\ square_pos_y = Px(20)

---------------------------------------------------------------------------
(* C8 *)

\* a step that renders a frame
IsFrame == gfx_state = "Some" /\ last' \in FrameTags

\* what holds of maxPosition in either reading: S and D clamp to, and a
\* bouncing frame clamps into, the canvas less exactly 10% of it, taken from
\* the window's size at that moment
MaxPositionIsCurrent ==
    /\ (gfx_state = "Some" /\ last' = "KeyD") =>
           square_pos_x' = Min(square_pos_x + Px(20), Px(Canvas(width)) - TenPercent(width))
    /\ (gfx_state = "Some" /\ last' = "KeyS") =>
           square_pos_y' = Min(square_pos_y + Px(20), Px(Canvas(height)) - TenPercent(height))
    /\ (IsFrame /\ velocity_x' # velocity_x) =>
           (0 <= square_pos_x' /\ square_pos_x' <= Px(Canvas(width)) - TenPercent(width))
    /\ (IsFrame /\ velocity_y' # velocity_y) =>
           (0 <= square_pos_y' /\ square_pos_y' <= Px(Canvas(height)) - TenPercent(height))
    /\ IsFrame => (drawn'.w = Canvas(width) /\ drawn'.h = Canvas(height))

---------------------------------------------------------------------------
(* C9 *)

---------------------------------------------------------------------------
(* C10 *)

\* a step that handles a key release or a press of a non-directional key
IsOtherKey ==
    /\ gfx_state = "Some" /\ last' = "Ignored"
    /\ \E k \in Keys, p \in BOOLEAN :
           ~(p /\ k \in DirectionalKeys) /\ KeyboardInput(k, p)

\* C10: W: y := max(y-20, 0); A: x := max(x-20, 0); S: y := min(y+20, maxY);
\* D: x := min(x+20, maxX); the other coordinate, the velocity and the cursor
\* stay; releases and other keys change nothing; from (360,270) one press of
\* A gives (340,270).
KeyStepsAndClamps ==
    [][ gfx_state = "Some" =>
          /\ last' = "KeyW" =>
                 /\ square_pos_y' = Max(square_pos_y - Px(20), 0)
                 /\ UNCHANGED square_pos_x
          /\ last' = "KeyA" =>
                 /\ square_pos_x' = Max(square_pos_x - Px(20), 0)
                 /\ UNCHANGED square_pos_y
          /\ last' = "KeyS" =>
                 /\ square_pos_y' =
                        Min(square_pos_y + Px(20), Px(Canvas(height)) - TenPercent(height))
                 /\ UNCHANGED square_pos_x
          /\ last' = "KeyD" =>
                 /\ square_pos_x' =
                        Min(square_pos_x + Px(20), Px(Canvas(width)) - TenPercent(width))
                 /\ UNCHANGED square_pos_y
          /\ last' \in DirectionalKeys =>
                 UNCHANGED << velocity_x, velocity_y, cursor_x, cursor_y >>
          /\ IsOtherKey =>
                 UNCHANGED << square_pos_x, square_pos_y, velocity_x, velocity_y,
                              cursor_x, cursor_y >>
          /\ (last' = "KeyA" /\ square_pos_x = Px(360) /\ square_pos_y = Px(270)) =>
                 (square_pos_x' = Px(340) /\ square_pos_y' = Px(270))
      ]_vars

\* one press of A from the centre of the 800x600 canvas
OneLeftFromCentre ==
    /\ presses = 1 /\ last = "KeyA" /\ width = 800 /\ height = 600
    /\ square_pos_x = Px(340) /\ square_pos_y = Px(270)

---------------------------------------------------------------------------
(* C11 *)

\* a step that handles a cursor move
IsCursorMove == gfx_state = "Some" /\ last' = "CursorMoved"

\* C11: a cursor move changes the tracked cursor and nothing else: the
\* square's position and velocity stay and the handler requests no redraw;
\* no other handler touches the tracked cursor, so a click reads the position
\* of the most recent cursor move.
CursorMoveOnlyTracks ==
    [][ gfx_state = "Some" =>
          /\ IsCursorMove =>
                 /\ UNCHANGED << square_pos_x, square_pos_y, velocity_x, velocity_y,
                                 redraw_requested, width, height >>
                 /\ ~asked_redraw'
                 /\ \A p \in CursorPoints \cup FineCursorPoints :
                        CursorMoved(p) => (cursor_x' = p[1] /\ cursor_y' = p[2])
          /\ ~IsCursorMove => UNCHANGED << cursor_x, cursor_y >>
          /\ last' = "Click" =>
                 /\ 2 * square_pos_x' =
                        2 * WholePixel(cursor_x) - Px((Canvas(width) * 10) \div 100)
                 /\ 2 * square_pos_y' =
                        2 * WholePixel(cursor_y) - Px((Canvas(height) * 10) \div 100)
      ]_vars

\* the cursor was moved to (-2.5,650.7), a click put the square at (-40,620),
\* and a move to (100,50) has just left the square there
CursorMovedAfterClick ==
    /\ last = "CursorMoved" /\ ~asked_redraw /\ width = 800 /\ height = 600
    /\ cursor_x = Px(100) /\ cursor_y = Px(50)
    /\ square_pos_x = Px(-40) /\ square_pos_y = Px(620)

---------------------------------------------------------------------------
(* C12 *)

\* 0 <= position <= maxPosition, maxPosition = canvas - 10% of the canvas
InRange(pos, dim) == 0 <= pos /\ pos <= Px(Canvas(dim)) - TenPercent(dim)

\* C12: after every frame, whatever the state before it (a position left out
\* of range by a click, by a shrunk window or by a long frame) and whatever
\* the canvas size, the position lies in [0, maxPosition] on both axes.
FramePostcondition ==
    (gfx_state = "Some" /\ last \in FrameTags) =>
        InRange(square_pos_x, width) /\ InRange(square_pos_y, height)

---------------------------------------------------------------------------
(* C13 *)

\* the pixels render writes: for y in start_y..end_y, for x in start_x..end_x
WrittenPixels == (drawn.sx .. drawn.ex - 1) \X (drawn.sy .. drawn.ey - 1)

\* C13: every pixel a frame writes for the square has 0 <= x < width and
\* 0 <= y < height of the canvas (at least 1x1), so its buffer index
\* y * width + x is below width * height, whatever the position was.
RasterInBounds ==
    (gfx_state = "Some" /\ last \in FrameTags) =>
        /\ drawn.w = Canvas(width) /\ drawn.h = Canvas(height)
        /\ drawn.w >= 1 /\ drawn.h >= 1
        /\ \A px \in WrittenPixels :
               /\ 0 <= px[1] /\ px[1] < drawn.w
               /\ 0 <= px[2] /\ px[2] < drawn.h
               /\ 0 <= px[2] * drawn.w + px[1]
               /\ px[2] * drawn.w + px[1] < drawn.w * drawn.h

\* a frame on the 25x20 canvas whose 2x2 square was cut at the right and at
\* the bottom canvas edge: the one pixel written is the last of the buffer
RasterCutAtEdge ==
    /\ last \in FrameTags /\ drawn.w = 25 /\ drawn.h = 20
    /\ drawn.sx = 24 /\ drawn.ex = 25 /\ drawn.sy = 19 /\ drawn.ey = 20
    /\ WrittenPixels = { <<24, 19>> }

---------------------------------------------------------------------------
(* C14 *)

\* the frame just rendered found contact at the near (far) edge of an axis
\* and so negated that axis's velocity component
HitNearX == gfx_state = "Some" /\ last \in FrameTags /\ drawn.sx <= 0
HitFarX == gfx_state = "Some" /\ last \in FrameTags /\ drawn.ex >= drawn.w
HitNearY == gfx_state = "Some" /\ last \in FrameTags /\ drawn.sy <= 0
HitFarY == gfx_state = "Some" /\ last \in FrameTags /\ drawn.ey >= drawn.h

\* C14: with frames only, a constant time apart, a bounce sends the square
\* away from the edge it hit: after a negation at one edge the square reaches
\* the opposite edge, and so on forever; it never stays at an edge.
BounceAlternates ==
    /\ [](HitNearX => <>HitFarX)
    /\ [](HitFarX => <>HitNearX)
    /\ [](HitNearY => <>HitFarY)
    /\ [](HitFarY => <>HitNearY)

===========================================================================
